---- MODULE Spec2Model ----
(***************************************************************************)
(* Model of geometric_SAR_properties_for_landslides.js, an Earth Engine    *)
(* script that derives radar viewing geometry per landslide polygon.       *)
(*                                                                         *)
(* Rasters are modelled on a transect of NPix pixels running across range. *)
(* A pixel holds {} when it is masked (no data) and {v} when it is valid.  *)
(* Angles in degrees are integers; angles in radians are integers in units *)
(* of 1e-6 rad; tangents are integers in units of 1e-4; cosines in units   *)
(* of 1e-3; the coherence chain is computed in 4-digit decimal floating    *)
(* point <<mantissa, exponent>> and the coherence itself is kept in units  *)
(* of 1e-6.                                                                *)
(***************************************************************************)
EXTENDS Integers, Sequences, FiniteSets, TLC

\* ------------------------------------------------------------------ bounds
NPix == 4
NPoly == 2

Pixels == 1..NPix

\* ------------------------------------------------------- scalar arithmetic
Abs(x) == IF x < 0 THEN -x ELSE x

\* integer quotient rounded toward zero
Quot(a, b) == IF a < 0 THEN -((-a) \div b) ELSE a \div b

\* Math.PI in units of 1e-6
PI6 == 3141593

\* .multiply(Math.PI/180): degrees to radians (1e-6 rad), rounded to nearest
DegToRad(d) ==
    IF d < 0 THEN -((((-d) * PI6) + 90) \div 180) ELSE ((d * PI6) + 90) \div 180

\* the whole degree nearest to an angle in 1e-6 rad
NearestDeg(r) ==
    IF r < 0 THEN -((((-r) * 180) + (PI6 \div 2)) \div PI6)
    ELSE ((r * 180) + (PI6 \div 2)) \div PI6

\* tan of 0..89 degrees in units of 1e-4, and the value the floating-point
\* tangent saturates to at 90 degrees (a large finite number)
TanTable == <<
    0, 175, 349, 524, 699, 875, 1051, 1228, 1405, 1584, 1763, 1944, 2126,
    2309, 2493, 2679, 2867, 3057, 3249, 3443, 3640, 3839, 4040, 4245, 4452,
    4663, 4877, 5095, 5317, 5543, 5774, 6009, 6249, 6494, 6745, 7002, 7265,
    7536, 7813, 8098, 8391, 8693, 9004, 9325, 9657, 10000, 10355, 10724,
    11106, 11504, 11918, 12349, 12799, 13270, 13764, 14281, 14826, 15399,
    16003, 16643, 17321, 18040, 18807, 19626, 20503, 21445, 22460, 23559,
    24751, 26051, 27475, 29042, 30777, 32709, 34874, 37321, 40108, 43315,
    47046, 51446, 56713, 63138, 71154, 81443, 95144, 114301, 143007,
    190811, 286363, 572900, 2000000 >>

\* cos of 0..90 degrees in units of 1e-3
CosTable == <<
    1000, 1000, 999, 999, 998, 996, 995, 993, 990, 988, 985, 982, 978, 974,
    970, 966, 961, 956, 951, 946, 940, 934, 927, 921, 914, 906, 899, 891,
    883, 875, 866, 857, 848, 839, 829, 819, 809, 799, 788, 777, 766, 755,
    743, 731, 719, 707, 695, 682, 669, 656, 643, 629, 616, 602, 588, 574,
    559, 545, 530, 515, 500, 485, 469, 454, 438, 423, 407, 391, 375, 358,
    342, 326, 309, 292, 276, 259, 242, 225, 208, 191, 174, 156, 139, 122,
    105, 87, 70, 52, 35, 17, 0 >>

\* tan of a whole number of degrees (period 180, odd)
TanDeg(d) ==
    LET m == d % 180
    IN  IF m <= 90 THEN TanTable[m + 1] ELSE -TanTable[(180 - m) + 1]

\* cos of a whole number of degrees (period 360, even)
CosDeg(d) ==
    LET m == d % 360
        f == IF m > 180 THEN 360 - m ELSE m
    IN  IF f <= 90 THEN CosTable[f + 1] ELSE -CosTable[(180 - f) + 1]

\* sin of a whole number of degrees
SinDeg(d) == CosDeg(d - 90)

\* Image.tan(), Image.cos(), Image.sin() on one pixel: radians in, 1e-4 / 1e-3 out
Tan(r) == TanDeg(NearestDeg(r))
Cos(r) == CosDeg(NearestDeg(r))
Sin(r) == SinDeg(NearestDeg(r))

\* Image.atan() on one pixel: tangent (1e-4) in, radians out; the result is
\* the largest whole degree whose tangent does not exceed |x|, signed like x
AtanDeg(x) ==
    LET a == Abs(x)
        d == CHOOSE k \in 0..90 :
                 /\ TanTable[k + 1] <= a
                 /\ (k < 90 => TanTable[k + 2] > a)
    IN  IF x < 0 THEN -d ELSE d

Atan(x) == DegToRad(AtanDeg(x))

\* ------------------------------------------- 4-digit decimal floating point
\* a non-negative number m * 10^e with 1000 <= m <= 9999, or <<0, 0>>
RECURSIVE FNorm(_, _)
FNorm(m, e) ==
    IF m = 0 THEN <<0, 0>>
    ELSE IF m >= 10000 THEN FNorm(m \div 10, e + 1)
    ELSE IF m < 1000 THEN FNorm(m * 10, e - 1)
    ELSE <<m, e>>

ToFloat(n) == FNorm(n, 0)

\* Image.multiply on one pixel
FMul(a, b) == FNorm(a[1] * b[1], a[2] + b[2])

\* Image.divide on one pixel; Earth Engine's divide returns 0 for division by 0
FDiv(a, b) ==
    IF b[1] = 0 THEN <<0, 0>>
    ELSE FNorm((a[1] * 10000) \div b[1], (a[2] - b[2]) - 4)

RECURSIVE Pow10(_)
Pow10(k) == IF k = 0 THEN 1 ELSE 10 * Pow10(k - 1)

\* a floating-point number in units of 1e-6
ToPpm(f) ==
    IF f[2] + 6 >= 0 THEN f[1] * Pow10(f[2] + 6)
    ELSE IF -(f[2] + 6) > 9 THEN 0
    ELSE f[1] \div Pow10(-(f[2] + 6))

\* Image.subtract on one pixel of the coherence chain, result in units of 1e-6
FSub(a, b) == ToPpm(a) - ToPpm(b)

\* Image.abs() then conversion of a tangent (1e-4) to floating point
FAbsTan(t) == FNorm(Abs(t), -4)

\* Image.tan().abs() on one pixel: radians in, floating point out
FTanAbs(t) == FAbsTan(Tan(t))

\* the slope steepness in azimuth of line 73, with sin in place of cos
RangeSlopeAzimuth(a, f) == Atan(Quot(Tan(a) * Sin(f), 1000))

\* line 69 on one pixel: (tan(alpha_s) * cos(phi_r)).atan()
RangeSlope(a, f) == Atan(Quot(Tan(a) * Cos(f), 1000))

\* the pixel-wise operations of one operand the script uses, by name
Apply1(name, v) ==
    CASE name = "multiply(PI/180)" -> DegToRad(v)
      [] name = "tan.abs" -> FTanAbs(v)

\* the pixel-wise operations of two operands the script uses, by name: on
\* angles (radians), and on the floating-point rasters of line 160
Apply2(name, x, y) ==
    CASE name = "subtract" -> x - y
      [] name = "tan.multiply(cos).atan" -> RangeSlope(x, y)
      [] name = "multiply:float" -> FMul(x, y)
      [] name = "divide:float" -> FDiv(x, y)
      [] name = "subtract:float" -> FSub(x, y)
      [] name = "add:float" -> ToPpm(x) + ToPpm(y)

\* ------------------------------------------------------------------ images
\* An ee.Image: proj is its default projection, px its pixels, err is TRUE
\* when evaluating it raises an error, ops is the chain of operations that
\* built it (binary operations continue the chain of their left operand).
NoProj == "none"
MosaicDefaultProj == "EPSG:4326@1deg"
DemTileProj == "ALOS_tile@30m"
S1PolProj == "S1_GRD@10m"
S1AngleProj == "S1_angle_grid"

\* pixel size in metres of a projection of the transect
PixelSize(prj) == IF prj = MosaicDefaultProj THEN 111320 ELSE 30

Masked == [p \in Pixels |-> {}]

\* ee.Image.constant(value); a null value is an evaluation error
Constant(value) ==
    [proj |-> NoProj, px |-> [p \in Pixels |-> value], err |-> value = {},
     ops |-> <<"constant">>]

\* a pixel-wise operation of one operand
Unary(name, img) ==
    [proj |-> img.proj,
     px |-> [p \in Pixels |-> {Apply1(name, v) : v \in img.px[p]}],
     err |-> img.err,
     ops |-> Append(img.ops, name)]

\* a pixel-wise operation of two operands: a pixel is valid where both are;
\* the result keeps the projection of the left operand unless that is a
\* constant image without one
OutProj(pa, pb) == IF pa = NoProj THEN pb ELSE pa

Binary(name, a, b) ==
    [proj |-> OutProj(a.proj, b.proj),
     px |-> [p \in Pixels |-> {Apply2(name, x, y) : x \in a.px[p], y \in b.px[p]}],
     err |-> a.err \/ b.err,
     ops |-> Append(a.ops, name)]

\* Image.setDefaultProjection(proj)
setDefaultProjection(img, prj) ==
    [img EXCEPT !.proj = prj,
                !.ops = Append(img.ops, "setDefaultProjection:" \o prj)]

\* Image.clip(geometry): pixels outside the geometry become no-data
clip(img, geom) ==
    [img EXCEPT !.px = [p \in Pixels |-> IF p \in geom THEN img.px[p] ELSE {}],
                !.ops = Append(img.ops, "clip")]

\* the operand projections of one binary pixel-wise operation
Grids(line, a, b) == <<line, a.proj, b.proj>>

\* ----------------------------------------------------------------- terrain
\* ee.Terrain works on the 4-connected neighbours of a pixel; on the transect
\* these are the pixels before and after it, and a pixel with a missing
\* neighbour is missing in the result.
HasNeighbours(px, p) ==
    /\ p - 1 \in DOMAIN px /\ p + 1 \in DOMAIN px
    /\ px[p - 1] # {} /\ px[p] # {} /\ px[p + 1] # {}

\* rise from the pixel before to the pixel after
Rise(px, p) ==
    (CHOOSE v \in px[p + 1] : TRUE) - (CHOOSE v \in px[p - 1] : TRUE)

\* ee.Terrain.slope: degrees from horizontal, on the pixel size of the
\* image's projection
TerrainSlope(img) ==
    [proj |-> img.proj,
     px |-> [p \in Pixels |->
                IF HasNeighbours(img.px, p)
                THEN {AtanDeg((Abs(Rise(img.px, p)) * 10000)
                                  \div (2 * PixelSize(img.proj)))}
                ELSE {}],
     err |-> img.err,
     ops |-> Append(img.ops, "slope")]

\* ee.Terrain.aspect: bearing of the downslope direction in degrees; pixel
\* indices grow eastwards, so a rise towards the east faces west (270) and a
\* fall towards the east faces east (90); a flat pixel reports 0
TerrainAspect(img) ==
    [proj |-> img.proj,
     px |-> [p \in Pixels |->
                IF HasNeighbours(img.px, p)
                THEN {IF Rise(img.px, p) > 0 THEN 270
                      ELSE IF Rise(img.px, p) < 0 THEN 90 ELSE 0}
                ELSE {}],
     err |-> img.err,
     ops |-> Append(img.ops, "aspect")]

\* ---------------------------------------------------------------- reducers
RECURSIVE SumOver(_, _)
SumOver(f, S) ==
    IF S = {} THEN 0
    ELSE LET p == CHOOSE q \in S : TRUE
         IN  f[p] + SumOver(f, S \ {p})

\* the valid pixels of an image inside a geometry
ValidPixels(img, geom) == {p \in geom \cap Pixels : img.px[p] # {}}

\* the value of a valid pixel
ValueAt(img, p) == CHOOSE v \in img.px[p] : TRUE

\* Image.reduceRegion(ee.Reducer.mean(), geometry).get(band): the mean of the
\* valid pixels in the geometry, null when there is none
reduceRegionMean(img, geom) ==
    LET S == ValidPixels(img, geom)
        f == [p \in S |-> ValueAt(img, p)]
    IN  IF S = {} THEN {} ELSE {Quot(SumOver(f, S), Cardinality(S))}

\* the k-th smallest of the values f takes on S, counted with multiplicity
Kth(f, S, k) ==
    CHOOSE v \in {f[p] : p \in S} :
        /\ Cardinality({p \in S : f[p] < v}) < k
        /\ k <= Cardinality({p \in S : f[p] <= v})

\* ee.Reducer.median() over the pixels S: the middle value, or the mean of
\* the two middle values (rounded down to the unit) for an even count
Median(f, S) ==
    LET n == Cardinality(S)
    IN  IF n % 2 = 1 THEN Kth(f, S, (n + 1) \div 2)
        ELSE (Kth(f, S, n \div 2) + Kth(f, S, (n \div 2) + 1)) \div 2

\* the pixels a polygon's statistic is taken over
ZonePixels(img, geom) == ValidPixels(img, geom)

\* the median with no-data pixels read as 0, as after unmask(0)
ZoneMedianUnmasked(img, geom) ==
    LET S == geom \cap Pixels
        f == [p \in S |-> IF img.px[p] = {} THEN 0 ELSE ValueAt(img, p)]
    IN  IF S = {} THEN {} ELSE {Median(f, S)}

\* the median property reduceRegions sets on one feature: absent ({}) when
\* the polygon has no valid pixel
ZoneMedian(img, geom) ==
    LET S == ZonePixels(img, geom)
        f == [p \in S |-> ValueAt(img, p)]
    IN  IF S = {} THEN {} ELSE {Median(f, S)}

\* a select that names no attribute of the inventory: the geometry alone
selectNothing(collection) ==
    [i \in DOMAIN collection |-> [object_id |-> 0, geom |-> collection[i].geom]]

\* FeatureCollection.select(['object_id']): keep the geometry and object_id
selectObjectId(collection) ==
    [i \in DOMAIN collection |->
        [object_id |-> collection[i].object_id, geom |-> collection[i].geom]]

\* Image.reduceRegions({collection, reducer: ee.Reducer.median(), scale}):
\* every feature of the collection, in order, with the median added; the
\* evaluation fails when the image cannot be evaluated
reduceRegions(img, collection) ==
    IF img.err THEN [failed |-> TRUE, rows |-> <<>>]
    ELSE [failed |-> FALSE,
          rows |-> [i \in DOMAIN collection |->
                       [object_id |-> collection[i].object_id,
                        geom |-> collection[i].geom,
                        median |-> ZoneMedian(img, collection[i].geom)]]]

NoTable == [failed |-> FALSE, rows |-> <<>>]

\* ------------------------------------------------------------------ inputs
\* The landslide inventory: NPoly polygons; polygon k covers k pixels of the
\* transect starting at some pixel, so a polygon can reach past the rasters.
Inventories ==
    {[k \in 1..NPoly |->
         [object_id |-> 100 + k, area |-> 10 * k,
          geom |-> {q \in 1..(NPix + 1) : at <= q /\ q < at + k}]] :
     at \in 1..NPix}

\* The DEM collection: the projection of its tiles and the heights (metres)
\* of the transect, one pixel wider than the rasters on each side; the two
\* pixels beyond the rasters are at height 0.
Heights == {0, 35}
DEMs == {[tileProj |-> DemTileProj,
          z |-> [q \in 0..(NPix + 1) |-> IF q \in Pixels THEN h[q] ELSE 0]] :
         h \in [Pixels -> Heights]}

\* Sentinel-1 GRD scenes: one or two polarisation bands then the band
\* 'angle', whose grid is its own when there are polarisation bands on the
\* 10 m grid before it; the incidence angle (degrees) rises or falls by one
\* degree per pixel across the footprint, a run of consecutive pixels.
Footprints == {{q \in Pixels : lo <= q /\ q <= hi} : lo \in Pixels, hi \in Pixels} \ {{}}

AngleAt(p, dir) == IF dir = 1 THEN 29 + p ELSE 30 + (NPix - p)

PolBand(name, fp) ==
    [name |-> name, proj |-> S1PolProj,
     px |-> [p \in Pixels |-> IF p \in fp THEN {0} ELSE {}]]

AngleBand(dir, fp) ==
    [name |-> "angle", proj |-> S1AngleProj,
     px |-> [p \in Pixels |-> IF p \in fp THEN {AngleAt(p, dir)} ELSE {}]]

S1Images ==
    {[bands |-> <<PolBand("VV", fp), PolBand("VH", fp), AngleBand(dir, fp)>>,
      footprint |-> fp] : dir \in {1, -1}, fp \in Footprints}
    \cup
    {[bands |-> <<PolBand("VV", fp), AngleBand(dir, fp)>>,
      footprint |-> fp] : dir \in {1, -1}, fp \in Footprints}

\* perpendicular baselines in metres
Baselines == {0, 150, 300}

\* --------------------------------------------------- collections and bands
\* ImageCollection.mosaic(): one image on the default projection of mosaics
mosaic(coll) ==
    [proj |-> MosaicDefaultProj,
     px |-> [p \in 0..(NPix + 1) |-> {coll.z[p]}],
     err |-> FALSE,
     ops |-> <<"mosaic">>]

BandImage(b) ==
    [proj |-> b.proj, px |-> b.px, err |-> FALSE, ops |-> <<"select:" \o b.name>>]

\* Image.select(index), the index counted from 0
selectIndex(img, i) == BandImage(img.bands[i + 1])

\* Image.select(name)
selectName(img, name) ==
    BandImage(img.bands[CHOOSE i \in DOMAIN img.bands : img.bands[i].name = name])

NoImage == [proj |-> NoProj, px |-> Masked, err |-> FALSE, ops |-> <<>>]

\* ------------------------------------------------- the script's expressions
\* the slope of the mosaic on its default projection
slopeUnpinned(elev, prj) == TerrainSlope(mosaic(elev))

\* line 30: ee.Terrain.slope(elevation.mosaic().setDefaultProjection(proj))
slopeExpr(elev, prj) == TerrainSlope(setDefaultProjection(mosaic(elev), prj))

\* line 33: ee.Terrain.aspect(elevation.mosaic().setDefaultProjection(proj))
aspectExpr(elev, prj) == TerrainAspect(setDefaultProjection(mosaic(elev), prj))

\* line 51: mean aspect of the incidence-angle band over the footprint
look_dirExpr(img, geom) ==
    reduceRegionMean(TerrainAspect(selectName(img, "angle")), geom)

\* line 55: image_s1.select('angle').multiply(Math.PI/180).clip(geom_s1)
theta_iRadExpr(img, geom) ==
    clip(Unary("multiply(PI/180)", selectName(img, "angle")), geom)

\* line 56: ee.Image.constant(look_dir).multiply(Math.PI/180)
phi_iRadExpr(look) == Unary("multiply(PI/180)", Constant(look))

\* lines 60, 61: x.multiply(Math.PI/180).setDefaultProjection(proj_s1).clip(geom_s1)
toSarGrid(img, prj, geom) ==
    clip(setDefaultProjection(Unary("multiply(PI/180)", img), prj), geom)

\* line 65: phi_iRad.subtract(phi_sRad)
phi_rRadExpr(phi_i, phi_s) == Binary("subtract", phi_i, phi_s)

\* line 69: (alpha_sRad.tan().multiply(phi_rRad.cos())).atan()
alpha_rRadExpr(alpha_s, phi_r) ==
    Binary("tan.multiply(cos).atan", alpha_s, phi_r)

\* line 76: theta_iRad.subtract(alpha_rRad)
theta_iRad_locExpr(theta_i, alpha_r) == Binary("subtract", theta_i, alpha_r)

\* lines 153-158: ee.Image.constant(v).setDefaultProjection(proj_s1).clip(geom_s1)
constImage(v, prj, geom) == clip(setDefaultProjection(Constant({v}), prj), geom)

\* the sensor constants of lines 152-156
c == 299792458
lambdaValue == <<5547, -5>>
rValue == 693000
BwValue == 48300000

\* line 160 with add in place of subtract
coh_geomAdd(one, cim, bp, lam, rr, bw, theta_loc) ==
    Binary("add:float", one,
        Binary("divide:float",
            Binary("multiply:float", cim, bp),
            Binary("multiply:float",
                Binary("multiply:float",
                    Binary("multiply:float", lam, rr),
                    Unary("tan.abs", theta_loc)),
                bw)))

\* line 160: ones.subtract(c_im.multiply(Bp).divide(
\*     lambda.multiply(r).multiply(theta_iRad_loc.tan().abs()).multiply(Bw)))
coh_geomExpr(one, cim, bp, lam, rr, bw, theta_loc) ==
    Binary("subtract:float", one,
        Binary("divide:float",
            Binary("multiply:float", cim, bp),
            Binary("multiply:float",
                Binary("multiply:float",
                    Binary("multiply:float", lam, rr),
                    Unary("tan.abs", theta_loc)),
                bw)))

\* the operand projections of the binary operations of line 160
coh_geomGrids(one, cim, bp, lam, rr, bw, theta_loc) ==
    LET num == OutProj(cim.proj, bp.proj)
        d1 == OutProj(lam.proj, rr.proj)
        d2 == OutProj(d1, theta_loc.proj)
        d3 == OutProj(d2, bw.proj)
        q == OutProj(num, d3)
    IN  {<<160, cim.proj, bp.proj>>, <<160, lam.proj, rr.proj>>,
         <<160, d1, theta_loc.proj>>, <<160, d2, bw.proj>>,
         <<160, num, d3>>, <<160, one.proj, q>>}

\* ------------------------------------------------------------------- state
VARIABLES
    pc,                 \* the source line of the next statement to run
    landslides, elevation, proj, slopeReprojected, aspectReprojected,
    image_s1, geom_s1, proj_s1, look_dir,
    theta_iRad, phi_iRad, alpha_sRad, phi_sRad,
    phi_rRad, alpha_rRad, theta_iRad_loc,
    ls_theta, ls_alpha, ls_slope, ls_aspect, ls_theta_alpha_difference,
    Bperp, c_im, lambda, r, Bw, Bp, ones, coh_geom, ls_modelled_coh_geom,
    exports,            \* the export tasks started, by description
    operandGrids,       \* the operand projections of every binary operation run
    lookState,          \* deferred evaluation: the mean-aspect reduction
    evaluated,          \* deferred evaluation: the tiles evaluated, by field
    lazyPx,             \* deferred evaluation: the pixels evaluated, by field
    lookUsed            \* deferred evaluation: the scalars each tile has used

inputVars == <<landslides, elevation, proj, slopeReprojected, aspectReprojected,
               image_s1, geom_s1, proj_s1, look_dir>>
fieldVars == <<theta_iRad, phi_iRad, alpha_sRad, phi_sRad,
               phi_rRad, alpha_rRad, theta_iRad_loc>>
tableVars == <<ls_theta, ls_alpha, ls_slope, ls_aspect, ls_theta_alpha_difference>>
cohVars == <<Bperp, c_im, lambda, r, Bw, Bp, ones, coh_geom, ls_modelled_coh_geom>>
lazyVars == <<lookState, evaluated, lazyPx, lookUsed>>
vars == <<pc, inputVars, fieldVars, tableVars, cohVars, exports, operandGrids,
          lazyVars>>

\* ----------------------------------------------------- deferred evaluation
\* The script only defines the fields; the export tasks evaluate them tile by
\* tile once the script has run. A tile holds every NTile-th pixel.
NTile == 2
Tiles == 1..NTile
TilePixels(t) == {p \in Pixels : ((p - 1) % NTile) + 1 = t}

Fields == {"theta_iRad", "phi_iRad", "alpha_sRad", "phi_sRad",
           "phi_rRad", "alpha_rRad", "theta_iRad_loc", "coh_geom"}

\* the fields a field's expression reads (lines 65, 69, 76, 160)
Deps(f) ==
    CASE f = "phi_rRad" -> {"phi_iRad", "phi_sRad"}
      [] f = "alpha_rRad" -> {"alpha_sRad", "phi_rRad"}
      [] f = "theta_iRad_loc" -> {"theta_iRad", "alpha_rRad"}
      [] f = "coh_geom" -> {"theta_iRad_loc"}
      [] OTHER -> {}

\* line 56: phi_iRad is a constant image of the scalar look_dir
NeedsLook(f) == f = "phi_iRad"

NoImageS1 == [bands |-> <<>>, footprint |-> {}]
NoDEM == [tileProj |-> NoProj, z |-> [p \in 0..(NPix + 1) |-> 0]]
NoExports == [d \in {} |-> NoTable]

Init ==
    /\ pc = 8
    /\ landslides = <<>>
    /\ elevation = NoDEM
    /\ proj = NoProj
    /\ slopeReprojected = NoImage
    /\ aspectReprojected = NoImage
    /\ image_s1 = NoImageS1
    /\ geom_s1 = {}
    /\ proj_s1 = NoProj
    /\ look_dir = {}
    /\ theta_iRad = NoImage /\ phi_iRad = NoImage
    /\ alpha_sRad = NoImage /\ phi_sRad = NoImage
    /\ phi_rRad = NoImage /\ alpha_rRad = NoImage /\ theta_iRad_loc = NoImage
    /\ ls_theta = NoTable /\ ls_alpha = NoTable /\ ls_slope = NoTable
    /\ ls_aspect = NoTable /\ ls_theta_alpha_difference = NoTable
    /\ Bperp = 0
    /\ c_im = NoImage /\ lambda = NoImage /\ r = NoImage /\ Bw = NoImage
    /\ Bp = NoImage /\ ones = NoImage
    /\ coh_geom = NoImage
    /\ ls_modelled_coh_geom = NoTable
    /\ exports = NoExports
    /\ operandGrids = {}
    /\ lookState = [done |-> FALSE, value |-> {}]
    /\ evaluated = [f \in Fields |-> {}]
    /\ lazyPx = [f \in Fields |-> Masked]
    /\ lookUsed = [t \in Tiles |-> {}]

\* Export.table.toDrive({collection, description, ...}): the task evaluates
\* the collection and writes it, or fails when the evaluation fails
toDrive(name, table) ==
    [collection |-> name, table |-> table,
     state |-> IF table.failed THEN "FAILED" ELSE "COMPLETED"]

\* ------------------------------------------------------------ statements
\* line 8: landslides = ee.FeatureCollection(...)
LoadLandslides ==
    /\ pc = 8
    /\ landslides' \in Inventories
    /\ pc' = 16
    /\ UNCHANGED lazyVars
    /\ UNCHANGED <<elevation, proj, slopeReprojected, aspectReprojected,
                 image_s1, geom_s1, proj_s1, look_dir, theta_iRad, phi_iRad,
                 alpha_sRad, phi_sRad, phi_rRad, alpha_rRad, theta_iRad_loc,
                 ls_theta, ls_alpha, ls_slope, ls_aspect,
                 ls_theta_alpha_difference, Bperp, c_im, lambda, r, Bw, Bp,
                 ones, coh_geom, ls_modelled_coh_geom, exports, operandGrids>>

\* line 16: dataset = ee.ImageCollection('JAXA/ALOS/AW3D30/V3_2'); elevation = dataset.select('DSM')
LoadElevation ==
    /\ pc = 16
    /\ elevation' \in DEMs
    /\ pc' = 29
    /\ UNCHANGED lazyVars
    /\ UNCHANGED <<landslides, proj, slopeReprojected, aspectReprojected,
                 image_s1, geom_s1, proj_s1, look_dir, theta_iRad, phi_iRad,
                 alpha_sRad, phi_sRad, phi_rRad, alpha_rRad, theta_iRad_loc,
                 ls_theta, ls_alpha, ls_slope, ls_aspect,
                 ls_theta_alpha_difference, Bperp, c_im, lambda, r, Bw, Bp,
                 ones, coh_geom, ls_modelled_coh_geom, exports, operandGrids>>

\* line 29: proj = elevation.first().select(0).projection()
TakeProj ==
    /\ pc = 29
    /\ proj' = elevation.tileProj
    /\ pc' = 30
    /\ UNCHANGED lazyVars
    /\ UNCHANGED <<landslides, elevation, slopeReprojected,
                 aspectReprojected, image_s1, geom_s1, proj_s1, look_dir,
                 theta_iRad, phi_iRad, alpha_sRad, phi_sRad, phi_rRad,
                 alpha_rRad, theta_iRad_loc, ls_theta, ls_alpha, ls_slope,
                 ls_aspect, ls_theta_alpha_difference, Bperp, c_im, lambda,
                 r, Bw, Bp, ones, coh_geom, ls_modelled_coh_geom, exports,
                 operandGrids>>

\* line 30: slopeReprojected
DeriveSlope ==
    /\ pc = 30
    /\ slopeReprojected' = slopeExpr(elevation, proj)
    /\ pc' = 33
    /\ UNCHANGED lazyVars
    /\ UNCHANGED <<landslides, elevation, proj, aspectReprojected, image_s1,
                 geom_s1, proj_s1, look_dir, theta_iRad, phi_iRad,
                 alpha_sRad, phi_sRad, phi_rRad, alpha_rRad, theta_iRad_loc,
                 ls_theta, ls_alpha, ls_slope, ls_aspect,
                 ls_theta_alpha_difference, Bperp, c_im, lambda, r, Bw, Bp,
                 ones, coh_geom, ls_modelled_coh_geom, exports, operandGrids>>

\* line 33: aspectReprojected
DeriveAspect ==
    /\ pc = 33
    /\ aspectReprojected' = aspectExpr(elevation, proj)
    /\ pc' = 38
    /\ UNCHANGED lazyVars
    /\ UNCHANGED <<landslides, elevation, proj, slopeReprojected, image_s1,
                 geom_s1, proj_s1, look_dir, theta_iRad, phi_iRad,
                 alpha_sRad, phi_sRad, phi_rRad, alpha_rRad, theta_iRad_loc,
                 ls_theta, ls_alpha, ls_slope, ls_aspect,
                 ls_theta_alpha_difference, Bperp, c_im, lambda, r, Bw, Bp,
                 ones, coh_geom, ls_modelled_coh_geom, exports, operandGrids>>

\* line 38: image_s1 = the first Sentinel-1 scene of the filtered collection
LoadImageS1 ==
    /\ pc = 38
    /\ image_s1' \in S1Images
    /\ pc' = 47
    /\ UNCHANGED lazyVars
    /\ UNCHANGED <<landslides, elevation, proj, slopeReprojected,
                 aspectReprojected, geom_s1, proj_s1, look_dir, theta_iRad,
                 phi_iRad, alpha_sRad, phi_sRad, phi_rRad, alpha_rRad,
                 theta_iRad_loc, ls_theta, ls_alpha, ls_slope, ls_aspect,
                 ls_theta_alpha_difference, Bperp, c_im, lambda, r, Bw, Bp,
                 ones, coh_geom, ls_modelled_coh_geom, exports, operandGrids>>

\* line 47: geom_s1 = image_s1.geometry()
GetGeomS1 ==
    /\ pc = 47
    /\ geom_s1' = image_s1.footprint
    /\ pc' = 48
    /\ UNCHANGED lazyVars
    /\ UNCHANGED <<landslides, elevation, proj, slopeReprojected,
                 aspectReprojected, image_s1, proj_s1, look_dir, theta_iRad,
                 phi_iRad, alpha_sRad, phi_sRad, phi_rRad, alpha_rRad,
                 theta_iRad_loc, ls_theta, ls_alpha, ls_slope, ls_aspect,
                 ls_theta_alpha_difference, Bperp, c_im, lambda, r, Bw, Bp,
                 ones, coh_geom, ls_modelled_coh_geom, exports, operandGrids>>

\* line 48: proj_s1 = image_s1.select(1).projection()
GetProjS1 ==
    /\ pc = 48
    /\ proj_s1' = selectIndex(image_s1, 1).proj
    /\ pc' = 51
    /\ UNCHANGED lazyVars
    /\ UNCHANGED <<landslides, elevation, proj, slopeReprojected,
                 aspectReprojected, image_s1, geom_s1, look_dir, theta_iRad,
                 phi_iRad, alpha_sRad, phi_sRad, phi_rRad, alpha_rRad,
                 theta_iRad_loc, ls_theta, ls_alpha, ls_slope, ls_aspect,
                 ls_theta_alpha_difference, Bperp, c_im, lambda, r, Bw, Bp,
                 ones, coh_geom, ls_modelled_coh_geom, exports, operandGrids>>

\* line 51: look_dir
GetLookDir ==
    /\ pc = 51
    /\ look_dir' = look_dirExpr(image_s1, geom_s1)
    /\ pc' = 55
    /\ UNCHANGED lazyVars
    /\ UNCHANGED <<landslides, elevation, proj, slopeReprojected,
                 aspectReprojected, image_s1, geom_s1, proj_s1, theta_iRad,
                 phi_iRad, alpha_sRad, phi_sRad, phi_rRad, alpha_rRad,
                 theta_iRad_loc, ls_theta, ls_alpha, ls_slope, ls_aspect,
                 ls_theta_alpha_difference, Bperp, c_im, lambda, r, Bw, Bp,
                 ones, coh_geom, ls_modelled_coh_geom, exports, operandGrids>>

\* line 55: theta_iRad
DefThetaI ==
    /\ pc = 55
    /\ theta_iRad' = theta_iRadExpr(image_s1, geom_s1)
    /\ pc' = 56
    /\ UNCHANGED lazyVars
    /\ UNCHANGED <<landslides, elevation, proj, slopeReprojected,
                 aspectReprojected, image_s1, geom_s1, proj_s1, look_dir,
                 phi_iRad, alpha_sRad, phi_sRad, phi_rRad, alpha_rRad,
                 theta_iRad_loc, ls_theta, ls_alpha, ls_slope, ls_aspect,
                 ls_theta_alpha_difference, Bperp, c_im, lambda, r, Bw, Bp,
                 ones, coh_geom, ls_modelled_coh_geom, exports, operandGrids>>

\* line 56: phi_iRad
DefPhiI ==
    /\ pc = 56
    /\ phi_iRad' = phi_iRadExpr(look_dir)
    /\ pc' = 60
    /\ UNCHANGED lazyVars
    /\ UNCHANGED <<landslides, elevation, proj, slopeReprojected,
                 aspectReprojected, image_s1, geom_s1, proj_s1, look_dir,
                 theta_iRad, alpha_sRad, phi_sRad, phi_rRad, alpha_rRad,
                 theta_iRad_loc, ls_theta, ls_alpha, ls_slope, ls_aspect,
                 ls_theta_alpha_difference, Bperp, c_im, lambda, r, Bw, Bp,
                 ones, coh_geom, ls_modelled_coh_geom, exports, operandGrids>>

\* line 60: alpha_sRad
DefAlphaS ==
    /\ pc = 60
    /\ alpha_sRad' = toSarGrid(slopeReprojected, proj_s1, geom_s1)
    /\ pc' = 61
    /\ UNCHANGED lazyVars
    /\ UNCHANGED <<landslides, elevation, proj, slopeReprojected,
                 aspectReprojected, image_s1, geom_s1, proj_s1, look_dir,
                 theta_iRad, phi_iRad, phi_sRad, phi_rRad, alpha_rRad,
                 theta_iRad_loc, ls_theta, ls_alpha, ls_slope, ls_aspect,
                 ls_theta_alpha_difference, Bperp, c_im, lambda, r, Bw, Bp,
                 ones, coh_geom, ls_modelled_coh_geom, exports, operandGrids>>

\* line 61: phi_sRad
DefPhiS ==
    /\ pc = 61
    /\ phi_sRad' = toSarGrid(aspectReprojected, proj_s1, geom_s1)
    /\ pc' = 65
    /\ UNCHANGED lazyVars
    /\ UNCHANGED <<landslides, elevation, proj, slopeReprojected,
                 aspectReprojected, image_s1, geom_s1, proj_s1, look_dir,
                 theta_iRad, phi_iRad, alpha_sRad, phi_rRad, alpha_rRad,
                 theta_iRad_loc, ls_theta, ls_alpha, ls_slope, ls_aspect,
                 ls_theta_alpha_difference, Bperp, c_im, lambda, r, Bw, Bp,
                 ones, coh_geom, ls_modelled_coh_geom, exports, operandGrids>>

\* line 65: phi_rRad
DefPhiR ==
    /\ pc = 65
    /\ phi_rRad' = phi_rRadExpr(phi_iRad, phi_sRad)
    /\ operandGrids' = operandGrids \cup {Grids(65, phi_iRad, phi_sRad)}
    /\ pc' = 69
    /\ UNCHANGED lazyVars
    /\ UNCHANGED <<landslides, elevation, proj, slopeReprojected,
                 aspectReprojected, image_s1, geom_s1, proj_s1, look_dir,
                 theta_iRad, phi_iRad, alpha_sRad, phi_sRad, alpha_rRad,
                 theta_iRad_loc, ls_theta, ls_alpha, ls_slope, ls_aspect,
                 ls_theta_alpha_difference, Bperp, c_im, lambda, r, Bw, Bp,
                 ones, coh_geom, ls_modelled_coh_geom, exports>>

\* line 69: alpha_rRad
DefAlphaR ==
    /\ pc = 69
    /\ alpha_rRad' = alpha_rRadExpr(alpha_sRad, phi_rRad)
    /\ operandGrids' = operandGrids \cup {Grids(69, alpha_sRad, phi_rRad)}
    /\ pc' = 76
    /\ UNCHANGED lazyVars
    /\ UNCHANGED <<landslides, elevation, proj, slopeReprojected,
                 aspectReprojected, image_s1, geom_s1, proj_s1, look_dir,
                 theta_iRad, phi_iRad, alpha_sRad, phi_sRad, phi_rRad,
                 theta_iRad_loc, ls_theta, ls_alpha, ls_slope, ls_aspect,
                 ls_theta_alpha_difference, Bperp, c_im, lambda, r, Bw, Bp,
                 ones, coh_geom, ls_modelled_coh_geom, exports>>

\* line 76: theta_iRad_loc
DefThetaLoc ==
    /\ pc = 76
    /\ theta_iRad_loc' = theta_iRad_locExpr(theta_iRad, alpha_rRad)
    /\ operandGrids' = operandGrids \cup {Grids(76, theta_iRad, alpha_rRad)}
    /\ pc' = 81
    /\ UNCHANGED lazyVars
    /\ UNCHANGED <<landslides, elevation, proj, slopeReprojected,
                 aspectReprojected, image_s1, geom_s1, proj_s1, look_dir,
                 theta_iRad, phi_iRad, alpha_sRad, phi_sRad, phi_rRad,
                 alpha_rRad, ls_theta, ls_alpha, ls_slope, ls_aspect,
                 ls_theta_alpha_difference, Bperp, c_im, lambda, r, Bw, Bp,
                 ones, coh_geom, ls_modelled_coh_geom, exports>>

\* line 81: ls_theta = theta_iRad.reduceRegions(...)
ReduceTheta ==
    /\ pc = 81
    /\ ls_theta' = reduceRegions(theta_iRad, selectObjectId(landslides))
    /\ pc' = 86
    /\ UNCHANGED lazyVars
    /\ UNCHANGED <<landslides, elevation, proj, slopeReprojected,
                 aspectReprojected, image_s1, geom_s1, proj_s1, look_dir,
                 theta_iRad, phi_iRad, alpha_sRad, phi_sRad, phi_rRad,
                 alpha_rRad, theta_iRad_loc, ls_alpha, ls_slope, ls_aspect,
                 ls_theta_alpha_difference, Bperp, c_im, lambda, r, Bw, Bp,
                 ones, coh_geom, ls_modelled_coh_geom, exports, operandGrids>>

\* line 86: Export.table.toDrive({collection: ls_theta, description: 'ls_theta_T019D'})
ExportTheta ==
    /\ pc = 86
    /\ exports' = ("ls_theta_T019D" :> toDrive("ls_theta", ls_theta)) @@ exports
    /\ pc' = 94
    /\ UNCHANGED lazyVars
    /\ UNCHANGED <<landslides, elevation, proj, slopeReprojected,
                 aspectReprojected, image_s1, geom_s1, proj_s1, look_dir,
                 theta_iRad, phi_iRad, alpha_sRad, phi_sRad, phi_rRad,
                 alpha_rRad, theta_iRad_loc, ls_theta, ls_alpha, ls_slope,
                 ls_aspect, ls_theta_alpha_difference, Bperp, c_im, lambda,
                 r, Bw, Bp, ones, coh_geom, ls_modelled_coh_geom,
                 operandGrids>>

\* line 94: ls_alpha = alpha_rRad.reduceRegions(...)
ReduceAlpha ==
    /\ pc = 94
    /\ ls_alpha' = reduceRegions(alpha_rRad, selectObjectId(landslides))
    /\ pc' = 100
    /\ UNCHANGED lazyVars
    /\ UNCHANGED <<landslides, elevation, proj, slopeReprojected,
                 aspectReprojected, image_s1, geom_s1, proj_s1, look_dir,
                 theta_iRad, phi_iRad, alpha_sRad, phi_sRad, phi_rRad,
                 alpha_rRad, theta_iRad_loc, ls_theta, ls_slope, ls_aspect,
                 ls_theta_alpha_difference, Bperp, c_im, lambda, r, Bw, Bp,
                 ones, coh_geom, ls_modelled_coh_geom, exports, operandGrids>>

\* line 100: Export.table.toDrive({collection: ls_alpha, description: 'ls_slope_in_LOS_T019D'})
ExportAlpha ==
    /\ pc = 100
    /\ exports' = ("ls_slope_in_LOS_T019D" :> toDrive("ls_alpha", ls_alpha)) @@ exports
    /\ pc' = 108
    /\ UNCHANGED lazyVars
    /\ UNCHANGED <<landslides, elevation, proj, slopeReprojected,
                 aspectReprojected, image_s1, geom_s1, proj_s1, look_dir,
                 theta_iRad, phi_iRad, alpha_sRad, phi_sRad, phi_rRad,
                 alpha_rRad, theta_iRad_loc, ls_theta, ls_alpha, ls_slope,
                 ls_aspect, ls_theta_alpha_difference, Bperp, c_im, lambda,
                 r, Bw, Bp, ones, coh_geom, ls_modelled_coh_geom,
                 operandGrids>>

\* line 108: ls_slope = alpha_sRad.reduceRegions(...)
ReduceSlope ==
    /\ pc = 108
    /\ ls_slope' = reduceRegions(alpha_sRad, selectObjectId(landslides))
    /\ pc' = 113
    /\ UNCHANGED lazyVars
    /\ UNCHANGED <<landslides, elevation, proj, slopeReprojected,
                 aspectReprojected, image_s1, geom_s1, proj_s1, look_dir,
                 theta_iRad, phi_iRad, alpha_sRad, phi_sRad, phi_rRad,
                 alpha_rRad, theta_iRad_loc, ls_theta, ls_alpha, ls_aspect,
                 ls_theta_alpha_difference, Bperp, c_im, lambda, r, Bw, Bp,
                 ones, coh_geom, ls_modelled_coh_geom, exports, operandGrids>>

\* line 113: Export.table.toDrive({collection: ls_slope, description: 'ls_slopes'})
ExportSlope ==
    /\ pc = 113
    /\ exports' = ("ls_slopes" :> toDrive("ls_slope", ls_slope)) @@ exports
    /\ pc' = 121
    /\ UNCHANGED lazyVars
    /\ UNCHANGED <<landslides, elevation, proj, slopeReprojected,
                 aspectReprojected, image_s1, geom_s1, proj_s1, look_dir,
                 theta_iRad, phi_iRad, alpha_sRad, phi_sRad, phi_rRad,
                 alpha_rRad, theta_iRad_loc, ls_theta, ls_alpha, ls_slope,
                 ls_aspect, ls_theta_alpha_difference, Bperp, c_im, lambda,
                 r, Bw, Bp, ones, coh_geom, ls_modelled_coh_geom,
                 operandGrids>>

\* line 121: ls_aspect = phi_sRad.reduceRegions(...)
ReduceAspect ==
    /\ pc = 121
    /\ ls_aspect' = reduceRegions(phi_sRad, selectObjectId(landslides))
    /\ pc' = 126
    /\ UNCHANGED lazyVars
    /\ UNCHANGED <<landslides, elevation, proj, slopeReprojected,
                 aspectReprojected, image_s1, geom_s1, proj_s1, look_dir,
                 theta_iRad, phi_iRad, alpha_sRad, phi_sRad, phi_rRad,
                 alpha_rRad, theta_iRad_loc, ls_theta, ls_alpha, ls_slope,
                 ls_theta_alpha_difference, Bperp, c_im, lambda, r, Bw, Bp,
                 ones, coh_geom, ls_modelled_coh_geom, exports, operandGrids>>

\* line 126: Export.table.toDrive({collection: ls_slope, description: 'ls_aspects'})
ExportAspect ==
    /\ pc = 126
    /\ exports' = ("ls_aspects" :> toDrive("ls_slope", ls_slope)) @@ exports
    /\ pc' = 134
    /\ UNCHANGED lazyVars
    /\ UNCHANGED <<landslides, elevation, proj, slopeReprojected,
                 aspectReprojected, image_s1, geom_s1, proj_s1, look_dir,
                 theta_iRad, phi_iRad, alpha_sRad, phi_sRad, phi_rRad,
                 alpha_rRad, theta_iRad_loc, ls_theta, ls_alpha, ls_slope,
                 ls_aspect, ls_theta_alpha_difference, Bperp, c_im, lambda,
                 r, Bw, Bp, ones, coh_geom, ls_modelled_coh_geom,
                 operandGrids>>

\* line 134: ls_theta_alpha_difference = theta_iRad_loc.reduceRegions(...)
ReduceDifference ==
    /\ pc = 134
    /\ ls_theta_alpha_difference' = reduceRegions(theta_iRad_loc, selectObjectId(landslides))
    /\ pc' = 139
    /\ UNCHANGED lazyVars
    /\ UNCHANGED <<landslides, elevation, proj, slopeReprojected,
                 aspectReprojected, image_s1, geom_s1, proj_s1, look_dir,
                 theta_iRad, phi_iRad, alpha_sRad, phi_sRad, phi_rRad,
                 alpha_rRad, theta_iRad_loc, ls_theta, ls_alpha, ls_slope,
                 ls_aspect, Bperp, c_im, lambda, r, Bw, Bp, ones, coh_geom,
                 ls_modelled_coh_geom, exports, operandGrids>>

\* line 139: Export.table.toDrive({collection: ls_theta, description: 'ls_theta_alpha_difference_T019D'})
ExportDifference ==
    /\ pc = 139
    /\ exports' = ("ls_theta_alpha_difference_T019D" :> toDrive("ls_theta", ls_theta)) @@ exports
    /\ pc' = 151
    /\ UNCHANGED lazyVars
    /\ UNCHANGED <<landslides, elevation, proj, slopeReprojected,
                 aspectReprojected, image_s1, geom_s1, proj_s1, look_dir,
                 theta_iRad, phi_iRad, alpha_sRad, phi_sRad, phi_rRad,
                 alpha_rRad, theta_iRad_loc, ls_theta, ls_alpha, ls_slope,
                 ls_aspect, ls_theta_alpha_difference, Bperp, c_im, lambda,
                 r, Bw, Bp, ones, coh_geom, ls_modelled_coh_geom,
                 operandGrids>>

\* line 151: Bperp = the perpendicular baseline in metres
SetBperp ==
    /\ pc = 151
    /\ Bperp' \in Baselines
    /\ pc' = 153
    /\ UNCHANGED lazyVars
    /\ UNCHANGED <<landslides, elevation, proj, slopeReprojected,
                 aspectReprojected, image_s1, geom_s1, proj_s1, look_dir,
                 theta_iRad, phi_iRad, alpha_sRad, phi_sRad, phi_rRad,
                 alpha_rRad, theta_iRad_loc, ls_theta, ls_alpha, ls_slope,
                 ls_aspect, ls_theta_alpha_difference, c_im, lambda, r, Bw,
                 Bp, ones, coh_geom, ls_modelled_coh_geom, exports,
                 operandGrids>>

\* line 153: c_im
DefCIm ==
    /\ pc = 153
    /\ c_im' = constImage(ToFloat(c), proj_s1, geom_s1)
    /\ pc' = 154
    /\ UNCHANGED lazyVars
    /\ UNCHANGED <<landslides, elevation, proj, slopeReprojected,
                 aspectReprojected, image_s1, geom_s1, proj_s1, look_dir,
                 theta_iRad, phi_iRad, alpha_sRad, phi_sRad, phi_rRad,
                 alpha_rRad, theta_iRad_loc, ls_theta, ls_alpha, ls_slope,
                 ls_aspect, ls_theta_alpha_difference, Bperp, lambda, r, Bw,
                 Bp, ones, coh_geom, ls_modelled_coh_geom, exports,
                 operandGrids>>

\* line 154: lambda
DefLambda ==
    /\ pc = 154
    /\ lambda' = constImage(lambdaValue, proj_s1, geom_s1)
    /\ pc' = 155
    /\ UNCHANGED lazyVars
    /\ UNCHANGED <<landslides, elevation, proj, slopeReprojected,
                 aspectReprojected, image_s1, geom_s1, proj_s1, look_dir,
                 theta_iRad, phi_iRad, alpha_sRad, phi_sRad, phi_rRad,
                 alpha_rRad, theta_iRad_loc, ls_theta, ls_alpha, ls_slope,
                 ls_aspect, ls_theta_alpha_difference, Bperp, c_im, r, Bw,
                 Bp, ones, coh_geom, ls_modelled_coh_geom, exports,
                 operandGrids>>

\* line 155: r
DefR ==
    /\ pc = 155
    /\ r' = constImage(ToFloat(rValue), proj_s1, geom_s1)
    /\ pc' = 156
    /\ UNCHANGED lazyVars
    /\ UNCHANGED <<landslides, elevation, proj, slopeReprojected,
                 aspectReprojected, image_s1, geom_s1, proj_s1, look_dir,
                 theta_iRad, phi_iRad, alpha_sRad, phi_sRad, phi_rRad,
                 alpha_rRad, theta_iRad_loc, ls_theta, ls_alpha, ls_slope,
                 ls_aspect, ls_theta_alpha_difference, Bperp, c_im, lambda,
                 Bw, Bp, ones, coh_geom, ls_modelled_coh_geom, exports,
                 operandGrids>>

\* line 156: Bw
DefBw ==
    /\ pc = 156
    /\ Bw' = constImage(ToFloat(BwValue), proj_s1, geom_s1)
    /\ pc' = 157
    /\ UNCHANGED lazyVars
    /\ UNCHANGED <<landslides, elevation, proj, slopeReprojected,
                 aspectReprojected, image_s1, geom_s1, proj_s1, look_dir,
                 theta_iRad, phi_iRad, alpha_sRad, phi_sRad, phi_rRad,
                 alpha_rRad, theta_iRad_loc, ls_theta, ls_alpha, ls_slope,
                 ls_aspect, ls_theta_alpha_difference, Bperp, c_im, lambda,
                 r, Bp, ones, coh_geom, ls_modelled_coh_geom, exports,
                 operandGrids>>

\* line 157: Bp
DefBp ==
    /\ pc = 157
    /\ Bp' = constImage(ToFloat(Bperp), proj_s1, geom_s1)
    /\ pc' = 158
    /\ UNCHANGED lazyVars
    /\ UNCHANGED <<landslides, elevation, proj, slopeReprojected,
                 aspectReprojected, image_s1, geom_s1, proj_s1, look_dir,
                 theta_iRad, phi_iRad, alpha_sRad, phi_sRad, phi_rRad,
                 alpha_rRad, theta_iRad_loc, ls_theta, ls_alpha, ls_slope,
                 ls_aspect, ls_theta_alpha_difference, Bperp, c_im, lambda,
                 r, Bw, ones, coh_geom, ls_modelled_coh_geom, exports,
                 operandGrids>>

\* line 158: ones
DefOnes ==
    /\ pc = 158
    /\ ones' = constImage(ToFloat(1), proj_s1, geom_s1)
    /\ pc' = 160
    /\ UNCHANGED lazyVars
    /\ UNCHANGED <<landslides, elevation, proj, slopeReprojected,
                 aspectReprojected, image_s1, geom_s1, proj_s1, look_dir,
                 theta_iRad, phi_iRad, alpha_sRad, phi_sRad, phi_rRad,
                 alpha_rRad, theta_iRad_loc, ls_theta, ls_alpha, ls_slope,
                 ls_aspect, ls_theta_alpha_difference, Bperp, c_im, lambda,
                 r, Bw, Bp, coh_geom, ls_modelled_coh_geom, exports,
                 operandGrids>>

\* line 160: coh_geom
DefCohGeom ==
    /\ pc = 160
    /\ coh_geom' = coh_geomExpr(ones, c_im, Bp, lambda, r, Bw, theta_iRad_loc)
    /\ operandGrids' = operandGrids \cup coh_geomGrids(ones, c_im, Bp, lambda, r, Bw, theta_iRad_loc)
    /\ pc' = 165
    /\ UNCHANGED lazyVars
    /\ UNCHANGED <<landslides, elevation, proj, slopeReprojected,
                 aspectReprojected, image_s1, geom_s1, proj_s1, look_dir,
                 theta_iRad, phi_iRad, alpha_sRad, phi_sRad, phi_rRad,
                 alpha_rRad, theta_iRad_loc, ls_theta, ls_alpha, ls_slope,
                 ls_aspect, ls_theta_alpha_difference, Bperp, c_im, lambda,
                 r, Bw, Bp, ones, ls_modelled_coh_geom, exports>>

\* line 165: ls_modelled_coh_geom = coh_geom.reduceRegions(...)
ReduceCoh ==
    /\ pc = 165
    /\ ls_modelled_coh_geom' = reduceRegions(coh_geom, selectObjectId(landslides))
    /\ pc' = 170
    /\ UNCHANGED lazyVars
    /\ UNCHANGED <<landslides, elevation, proj, slopeReprojected,
                 aspectReprojected, image_s1, geom_s1, proj_s1, look_dir,
                 theta_iRad, phi_iRad, alpha_sRad, phi_sRad, phi_rRad,
                 alpha_rRad, theta_iRad_loc, ls_theta, ls_alpha, ls_slope,
                 ls_aspect, ls_theta_alpha_difference, Bperp, c_im, lambda,
                 r, Bw, Bp, ones, coh_geom, exports, operandGrids>>

\* line 170: Export.table.toDrive({collection: ls_modelled_coh_geom, description: 'ls_modelled_coh_geom_T019D'})
ExportCoh ==
    /\ pc = 170
    /\ exports' = ("ls_modelled_coh_geom_T019D" :> toDrive("ls_modelled_coh_geom", ls_modelled_coh_geom)) @@ exports
    /\ pc' = 176
    /\ UNCHANGED lazyVars
    /\ UNCHANGED <<landslides, elevation, proj, slopeReprojected,
                 aspectReprojected, image_s1, geom_s1, proj_s1, look_dir,
                 theta_iRad, phi_iRad, alpha_sRad, phi_sRad, phi_rRad,
                 alpha_rRad, theta_iRad_loc, ls_theta, ls_alpha, ls_slope,
                 ls_aspect, ls_theta_alpha_difference, Bperp, c_im, lambda,
                 r, Bw, Bp, ones, coh_geom, ls_modelled_coh_geom,
                 operandGrids>>

\* the line after the last statement
EndOfScript == 176

Next ==
    \/ LoadLandslides
    \/ LoadElevation
    \/ TakeProj
    \/ DeriveSlope
    \/ DeriveAspect
    \/ LoadImageS1
    \/ GetGeomS1
    \/ GetProjS1
    \/ GetLookDir
    \/ DefThetaI
    \/ DefPhiI
    \/ DefAlphaS
    \/ DefPhiS
    \/ DefPhiR
    \/ DefAlphaR
    \/ DefThetaLoc
    \/ ReduceTheta
    \/ ExportTheta
    \/ ReduceAlpha
    \/ ExportAlpha
    \/ ReduceSlope
    \/ ExportSlope
    \/ ReduceAspect
    \/ ExportAspect
    \/ ReduceDifference
    \/ ExportDifference
    \/ SetBperp
    \/ DefCIm
    \/ DefLambda
    \/ DefR
    \/ DefBw
    \/ DefBp
    \/ DefOnes
    \/ DefCohGeom
    \/ ReduceCoh
    \/ ExportCoh

Spec == Init /\ [][Next]_vars

\* ------------------------------------------- deferred evaluation: the tasks
scriptVars == <<pc, inputVars, fieldVars, tableVars, cohVars, exports, operandGrids>>

\* the pixels of a field evaluated so far, as an image
LazyImage(f) == [proj |-> NoProj, px |-> lazyPx[f], err |-> FALSE, ops |-> <<>>]

\* readiness without the wait for the reduction
ReadyNoBarrier(f, t) == \A g \in Deps(f) : t \in evaluated[g]

\* a tile of a field can be evaluated once the tiles it reads are there, and
\* the constant image of look_dir once the reduction has given a value
Ready(f, t) ==
    /\ \A g \in Deps(f) : t \in evaluated[g]
    /\ NeedsLook(f) => (lookState.done /\ lookState.value # {})

\* a field evaluated from what it reads: the rasters of the scene for the
\* fields read from the inputs, the evaluated pixels of its operands otherwise
FieldValue(f) ==
    CASE f = "theta_iRad" -> theta_iRad
      [] f = "alpha_sRad" -> alpha_sRad
      [] f = "phi_sRad" -> phi_sRad
      [] f = "phi_iRad" -> phi_iRadExpr(lookState.value)
      [] f = "phi_rRad" -> phi_rRadExpr(LazyImage("phi_iRad"), LazyImage("phi_sRad"))
      [] f = "alpha_rRad" ->
             alpha_rRadExpr(LazyImage("alpha_sRad"), LazyImage("phi_rRad"))
      [] f = "theta_iRad_loc" ->
             theta_iRad_locExpr(LazyImage("theta_iRad"), LazyImage("alpha_rRad"))
      [] f = "coh_geom" ->
             coh_geomExpr(ones, c_im, Bp, lambda, r, Bw, LazyImage("theta_iRad_loc"))

\* line 51 evaluated: the reduction over the whole footprint, in one step
EvalLook ==
    /\ pc = EndOfScript
    /\ ~lookState.done
    /\ lookState' = [done |-> TRUE, value |-> look_dirExpr(image_s1, geom_s1)]
    /\ UNCHANGED <<scriptVars, evaluated, lazyPx, lookUsed>>

\* one tile of one field evaluated
EvalTile(f, t) ==
    /\ pc = EndOfScript
    /\ t \notin evaluated[f]
    /\ Ready(f, t)
    /\ evaluated' = [evaluated EXCEPT ![f] = @ \cup {t}]
    /\ lazyPx' = [lazyPx EXCEPT ![f] =
                     [p \in Pixels |->
                         IF p \in TilePixels(t) THEN FieldValue(f).px[p] ELSE @[p]]]
    /\ lookUsed' = IF NeedsLook(f)
                   THEN [lookUsed EXCEPT ![t] = @ \cup {lookState.value}]
                   ELSE lookUsed
    /\ UNCHANGED <<scriptVars, lookState>>

\* the scenes the deferred evaluation is explored on: a DEM that is flat but
\* for pixel 2, a dual-polarisation scene whose incidence angle rises with
\* the pixel index, the baseline of the source, the inventory starting at
\* pixel 1
LazyScene ==
    /\ \A q \in DOMAIN elevation.z : q # 2 => elevation.z[q] = 0
    /\ Len(image_s1.bands) \in {0, 3}
    /\ Len(image_s1.bands) = 3 =>
           \A p \in image_s1.footprint : image_s1.bands[3].px[p] = {AngleAt(p, 1)}
    /\ pc > 151 => Bperp = 150
    /\ landslides # <<>> => landslides[1].geom = {1}

ScriptStep == Next /\ LazyScene'

EvalStep == \E f \in Fields, t \in Tiles : EvalTile(f, t)

LazyNext ==
    \/ ScriptStep
    \/ EvalLook
    \/ EvalStep

SpecLazy == Init /\ [][LazyNext]_vars

\* ------------------------------------ the terrain projection on its own
\* Lines 65 and 69 run on rasters of any slope below 90 degrees, any terrain
\* aspect and any look direction (whole degrees, the same at every pixel).
SlopesGeom == 0..89
AspectsGeom == {15 * k : k \in 0..23}
LooksGeom == {0, 90, 100, 270}

UniformImage(v) ==
    [proj |-> S1PolProj, px |-> [p \in Pixels |-> {v}], err |-> FALSE, ops |-> <<>>]

InitGeom ==
    /\ pc = 65
    /\ \E s0 \in SlopesGeom, a0 \in AspectsGeom, lk \in LooksGeom :
          /\ look_dir = {lk}
          /\ phi_iRad = phi_iRadExpr({lk})
          /\ alpha_sRad = UniformImage(DegToRad(s0))
          /\ phi_sRad = UniformImage(DegToRad(a0))
    /\ landslides = <<>>
    /\ elevation = NoDEM
    /\ proj = NoProj
    /\ slopeReprojected = NoImage
    /\ aspectReprojected = NoImage
    /\ image_s1 = NoImageS1
    /\ geom_s1 = Pixels
    /\ proj_s1 = S1PolProj
    /\ theta_iRad = NoImage
    /\ phi_rRad = NoImage /\ alpha_rRad = NoImage /\ theta_iRad_loc = NoImage
    /\ ls_theta = NoTable /\ ls_alpha = NoTable /\ ls_slope = NoTable
    /\ ls_aspect = NoTable /\ ls_theta_alpha_difference = NoTable
    /\ Bperp = 0
    /\ c_im = NoImage /\ lambda = NoImage /\ r = NoImage /\ Bw = NoImage
    /\ Bp = NoImage /\ ones = NoImage
    /\ coh_geom = NoImage
    /\ ls_modelled_coh_geom = NoTable
    /\ exports = NoExports
    /\ operandGrids = {}
    /\ lookState = [done |-> FALSE, value |-> {}]
    /\ evaluated = [f \in Fields |-> {}]
    /\ lazyPx = [f \in Fields |-> Masked]
    /\ lookUsed = [t \in Tiles |-> {}]

GeomNext ==
    \/ DefPhiR
    \/ DefAlphaR

SpecGeom == InitGeom /\ [][GeomNext]_vars

\* ================================================================== claims
\* the rasters reduced over the inventory, with the line of the reduction
\* and the table it assigns
Tabulated ==
    {<<81, theta_iRad, ls_theta>>, <<94, alpha_rRad, ls_alpha>>,
     <<108, alpha_sRad, ls_slope>>, <<121, phi_sRad, ls_aspect>>,
     <<134, theta_iRad_loc, ls_theta_alpha_difference>>,
     <<165, coh_geom, ls_modelled_coh_geom>>}

\* the table of the raster a product's name denotes
OwnTable(d) ==
    CASE d = "ls_theta_T019D" -> [name |-> "ls_theta", table |-> ls_theta]
      [] d = "ls_slope_in_LOS_T019D" -> [name |-> "ls_alpha", table |-> ls_alpha]
      [] d = "ls_slopes" -> [name |-> "ls_slope", table |-> ls_slope]
      [] d = "ls_aspects" -> [name |-> "ls_aspect", table |-> ls_aspect]
      [] d = "ls_theta_alpha_difference_T019D" ->
             [name |-> "ls_theta_alpha_difference",
              table |-> ls_theta_alpha_difference]
      [] d = "ls_modelled_coh_geom_T019D" ->
             [name |-> "ls_modelled_coh_geom", table |-> ls_modelled_coh_geom]

\* C1: every export task is handed the zonal-median table of the raster its
\* product name denotes, and no two products are handed the same collection.
C1_ExportsOwnProduct ==
    /\ \A d \in DOMAIN exports :
          /\ exports[d].collection = OwnTable(d).name
          /\ exports[d].table = OwnTable(d).table
    /\ \A d1, d2 \in DOMAIN exports :
          d1 # d2 => exports[d1].collection # exports[d2].collection

\* one in the units of the coherence raster
CohOne == 1000000

\* C2: every value of the coherence field that is aggregated and exported
\* lies in [0,1], and a pixel whose tangent is zero is reported as 0.
C2_CoherenceClamped ==
    pc > 160 =>
        \A p \in Pixels : \A v \in coh_geom.px[p] :
            /\ 0 <= v /\ v <= CohOne
            /\ \A t \in theta_iRad_loc.px[p] : Tan(t) = 0 => v = 0

C4_OperandsShareGrid ==
    \A g \in operandGrids : g[2] = NoProj \/ g[3] = NoProj \/ g[2] = g[3]

\* the products computed from the look direction
LookProducts ==
    {"ls_slope_in_LOS_T019D", "ls_theta_alpha_difference_T019D",
     "ls_modelled_coh_geom_T019D"}

\* C5: when the mean-aspect reduction finds no valid pixel, no field that
\* reads the look direction has a value and no table of a product computed
\* from it is produced.
C5_NoLookNoProduct ==
    (pc = EndOfScript /\ look_dir = {}) =>
        /\ phi_rRad.err /\ alpha_rRad.err /\ theta_iRad_loc.err /\ coh_geom.err
        /\ \A d \in LookProducts : exports[d].state = "FAILED"

\* the fields computed from the look direction
LookFields == {"phi_iRad", "phi_rRad", "alpha_rRad", "theta_iRad_loc", "coh_geom"}

\* C6: no tile of a field computed from the look direction is evaluated
\* before the mean-aspect reduction has completed, and every tile uses the
\* one value the reduction gave.
C6_LookBarrier ==
    /\ \A f \in LookFields : evaluated[f] # {} => lookState.done
    /\ \A t \in Tiles : lookUsed[t] \subseteq {lookState.value}
    /\ \A t \in evaluated["phi_rRad"] : \A p \in TilePixels(t) :
          lazyPx["phi_rRad"][p] =
              phi_rRadExpr(phi_iRadExpr(lookState.value), phi_sRad).px[p]

\* C6 happens: the reduction is done, one tile of the coherence is evaluated
\* and the other tile has not yet evaluated its constant image.
C6_Witness ==
    /\ lookState.done
    /\ \E t, u \in Tiles :
          /\ t \in evaluated["coh_geom"]
          /\ \E p \in TilePixels(t) : lazyPx["coh_geom"][p] # {}
          /\ u \notin evaluated["phi_iRad"]
          /\ u \in evaluated["phi_sRad"]

\* the coherence raster of line 160 for another baseline
CohAt(b) ==
    coh_geomExpr(ones, c_im, constImage(ToFloat(b), proj_s1, geom_s1),
                 lambda, r, Bw, theta_iRad_loc)

\* C7: at a pixel whose local incidence angle has a non-zero tangent the
\* coherence is exactly 1 for a baseline of 0, and it is never greater for a
\* longer baseline nor smaller for a shorter one.
C7_CoherenceMonotone ==
    pc > 160 =>
        \A p \in Pixels : \A t \in theta_iRad_loc.px[p] : \A v \in coh_geom.px[p] :
            Tan(t) # 0 =>
                /\ Bperp = 0 => v = CohOne
                /\ \A b \in Baselines : \A w \in CohAt(b).px[p] :
                      /\ b >= Bperp => w <= v
                      /\ b <= Bperp => w >= v

\* C7 happens: a baseline of 0 gives a coherence of 1 at a pixel where the
\* longest baseline gives less.
C7_Witness ==
    /\ pc > 160 /\ Bperp = 0
    /\ \E p \in Pixels : \E t \in theta_iRad_loc.px[p] :
          /\ Tan(t) # 0
          /\ coh_geom.px[p] = {CohOne}
          /\ \E w \in CohAt(300).px[p] : w < CohOne

\* C8: the range-slope steepness never exceeds the slope in magnitude, equals
\* the slope at relative aspect 0 and is 0 at relative aspect 90 degrees.
C8_RangeSlopeBounded ==
    pc > 69 =>
        \A p \in Pixels :
            \A a \in alpha_rRad.px[p], sl \in alpha_sRad.px[p], f \in phi_rRad.px[p] :
                /\ Abs(a) <= sl
                /\ f = 0 => a = sl
                /\ f = DegToRad(90) => a = 0

\* C8 happens: a slope of 30 degrees seen at relative aspect 0 projects to 30
\* degrees.
C8_Witness ==
    /\ pc > 69
    /\ \E p \in Pixels :
          /\ alpha_sRad.px[p] = {DegToRad(30)}
          /\ phi_rRad.px[p] = {0}
          /\ alpha_rRad.px[p] = {DegToRad(30)}

\* C9: every table has one row per polygon of the inventory, in order, with
\* the polygon's object_id and geometry unchanged, the object_ids are all
\* different, and the inventory is as it was read.
C9_TablesKeyedByInventory ==
    /\ pc > 8 => landslides \in Inventories
    /\ \A i, j \in DOMAIN landslides :
          i # j => landslides[i].object_id # landslides[j].object_id
    /\ \A t \in Tabulated :
          (pc > t[1] /\ ~t[3].failed) =>
              /\ DOMAIN t[3].rows = DOMAIN landslides
              /\ \A i \in DOMAIN landslides :
                    /\ t[3].rows[i].object_id = landslides[i].object_id
                    /\ t[3].rows[i].geom = landslides[i].geom

\* C9 happens: all six tables are there, keyed alike, one of them with a
\* polygon that has no valid pixel.
C9_Witness ==
    /\ pc = EndOfScript
    /\ \A t \in Tabulated : ~t[3].failed /\ Len(t[3].rows) = NPoly
    /\ \E i \in DOMAIN ls_alpha.rows : ls_alpha.rows[i].median = {}
    /\ \E i \in DOMAIN ls_alpha.rows : ls_alpha.rows[i].median # {}

\* the position of the first operation of a chain that satisfies Is
FirstPos(ops, names) ==
    IF \E i \in DOMAIN ops : ops[i] \in names
    THEN CHOOSE i \in DOMAIN ops :
             ops[i] \in names /\ \A j \in 1..(i - 1) : ops[j] \notin names
    ELSE 0

IsMosaic == {"mosaic"}
IsPinTile == {"setDefaultProjection:" \o DemTileProj}
IsDerive == {"slope", "aspect"}
IsPinSar == {"setDefaultProjection:" \o proj_s1}
IsClip == {"clip"}

\* C10 as stated: the tile projection is pinned on the elevation data before
\* it is mosaicked.
C10_PinnedBeforeMosaic ==
    pc > 33 =>
        \A img \in {slopeReprojected, aspectReprojected} :
            /\ FirstPos(img.ops, IsPinTile) > 0
            /\ FirstPos(img.ops, IsPinTile) < FirstPos(img.ops, IsMosaic)

\* C10 amended: the projection is taken from a tile, the elevation data is
\* mosaicked, the tile projection is pinned on the mosaic, slope and aspect
\* are derived on it, and only then are they put on the SAR grid and clipped.
C10_PinnedAfterMosaic ==
    /\ pc > 29 => proj = elevation.tileProj /\ proj # MosaicDefaultProj
    /\ pc > 33 =>
          \A img \in {slopeReprojected, aspectReprojected} :
              /\ img.proj = elevation.tileProj
              /\ FirstPos(img.ops, IsMosaic) = 1
              /\ FirstPos(img.ops, IsPinTile) = 2
              /\ FirstPos(img.ops, IsDerive) = 3
              /\ Len(img.ops) = 3
    /\ pc > 61 =>
          \A img \in {alpha_sRad, phi_sRad} :
              /\ FirstPos(img.ops, IsMosaic) = 1
              /\ FirstPos(img.ops, IsPinTile) = 2
              /\ FirstPos(img.ops, IsDerive) = 3
              /\ FirstPos(img.ops, IsPinSar) > 3
              /\ FirstPos(img.ops, IsClip) > FirstPos(img.ops, IsPinSar)
              /\ \A i \in DOMAIN img.ops : img.ops[i] \in IsDerive => i = 3

\* C10 happens: a slope of 30 degrees derived on the tile projection is on the
\* SAR grid.
C10_Witness ==
    /\ pc > 61
    /\ alpha_sRad.proj = proj_s1
    /\ \E p \in Pixels : slopeReprojected.px[p] = {30}
                         /\ alpha_sRad.px[p] = {DegToRad(30)}

====
